---- MODULE Spec2Model ----
(***************************************************************************)
(* WordTool (src/wordtool.py): the constraint engine of WordFinder.        *)
(*                                                                         *)
(* Python strings are sequences of one-character strings, '' is <<>>.      *)
(* None is <<>> as well, so that Python's truth test ("if x:", "not x")    *)
(* of a string, a list, a dict or None is "x # <<>>".                      *)
(* A defaultdict(int) is a total function over Keys: a key that was never  *)
(* stored reads 0, exactly as a defaultdict answers a missing key.         *)
(***************************************************************************)
EXTENDS Integers, Sequences, FiniteSets, TLC

None == <<>>

\* The part of chr(97)..chr(122) the model's words and constraints use.
Letters == {"a", "c", "o", "s", "t"}
Keys == Letters \cup {"?"}

_DEFAULT_DICTIONARY_FILE == "wordlist"
_EMPTY_DICT == [k \in Keys |-> 0]
_LETTER_MAX_COUNT == 100
_UNLIMITED_DICT == [k \in Keys |-> IF k \in Letters THEN _LETTER_MAX_COUNT ELSE 0]

(***************************************************************************)
(* Helper methods                                                          *)
(***************************************************************************)

\* str.strip(): drop leading and trailing whitespace.
Whitespace == {" ", "\n", "\t"}
RECURSIVE lstrip(_)
lstrip(s) ==
    IF s # <<>> /\ Head(s) \in Whitespace THEN lstrip(Tail(s)) ELSE s
RECURSIVE rstrip(_)
rstrip(s) ==
    IF s # <<>> /\ s[Len(s)] \in Whitespace
    THEN rstrip(SubSeq(s, 1, Len(s) - 1)) ELSE s
strip(s) == rstrip(lstrip(s))

\* [line.strip() for line in filehandle]
_read_wordlist(lines) == [i \in 1..Len(lines) |-> strip(lines[i])]

\* A "for L in word" loop: its state s holds s.i, the position of the next
\* letter, and the loop's local variables. loop(word, hi, s) runs the loop from
\* s.i up to position hi, as the run up to the middle followed by the run from
\* there (which keeps the evaluation of long words shallow).
RECURSIVE _letter_count_loop(_, _, _)
_letter_count_loop(word, hi, s) ==
    IF s.i > hi THEN s
    ELSE IF s.i = hi
    THEN [i |-> s.i + 1, Lc |-> [s.Lc EXCEPT ![word[s.i]] = @ + 1]]
    ELSE _letter_count_loop(word, hi, _letter_count_loop(word, (s.i + hi) \div 2, s))
_letter_count(word) ==
    _letter_count_loop(word, Len(word), [i |-> 1, Lc |-> _EMPTY_DICT]).Lc

RECURSIVE _limiting_letter_count_loop(_, _, _)
_limiting_letter_count_loop(word, hi, s) ==
    IF s.i > hi THEN s
    ELSE IF s.i = hi
    THEN LET L == word[s.i]
             Lc0 == IF s.Lc[L] = _LETTER_MAX_COUNT THEN [s.Lc EXCEPT ![L] = 0] ELSE s.Lc
         IN [i |-> s.i + 1, Lc |-> [Lc0 EXCEPT ![L] = @ + 1]]
    ELSE _limiting_letter_count_loop(word, hi,
             _limiting_letter_count_loop(word, (s.i + hi) \div 2, s))
_limiting_letter_count(word) ==
    _limiting_letter_count_loop(word, Len(word), [i |-> 1, Lc |-> _UNLIMITED_DICT]).Lc

\* Fault variant of _word_is_subset_of: every letter may draw on all the
\* wildcards, instead of each wildcard being used up by one letter.
_word_is_subset_of_sharing_wildcards(word, letterset) ==
    [is_subset |-> \A i \in 1..Len(word) :
                       _letter_count(word)[word[i]] <= letterset[word[i]] + letterset["?"],
     Lc |-> _letter_count(word)]

\* Returns the pair (is_subset, Lc); on failure Lc is only partially filled.
\* s.returned: "return False, Lc" was executed, the loop is over.
RECURSIVE _word_is_subset_of_loop(_, _, _, _)
_word_is_subset_of_loop(word, letterset, hi, s) ==
    IF s.returned \/ s.i > hi THEN s
    ELSE IF s.i = hi
    THEN LET L == word[s.i]
             Lc1 == [s.Lc EXCEPT ![L] = @ + 1]
         IN IF Lc1[L] > letterset[L]
            THEN [i |-> s.i + 1, Lc |-> Lc1, wildcards_used |-> s.wildcards_used + 1,
                  returned |-> s.wildcards_used + 1 > letterset["?"]]
            ELSE [i |-> s.i + 1, Lc |-> Lc1, wildcards_used |-> s.wildcards_used,
                  returned |-> FALSE]
    ELSE _word_is_subset_of_loop(word, letterset, hi,
             _word_is_subset_of_loop(word, letterset, (s.i + hi) \div 2, s))
\* Fault variant of _word_is_subset_of: one excess letter is let through beyond
\* the wildcards.
_word_is_subset_of_one_spare(word, letterset) ==
    LET s == _word_is_subset_of_loop(word, [letterset EXCEPT !["?"] = @ + 1], Len(word),
                 [i |-> 1, Lc |-> _EMPTY_DICT, wildcards_used |-> 0, returned |-> FALSE])
    IN [is_subset |-> ~ s.returned, Lc |-> s.Lc]

_word_is_subset_of(word, letterset) ==
    LET s == _word_is_subset_of_loop(word, letterset, Len(word),
                 [i |-> 1, Lc |-> _EMPTY_DICT, wildcards_used |-> 0, returned |-> FALSE])
    IN [is_subset |-> ~ s.returned, Lc |-> s.Lc]

_word_contains_at_least(word, letterset, Lc) ==
    LET Lc1 == IF Lc = None THEN _letter_count(word) ELSE Lc
    IN \A L \in DOMAIN letterset : ~(Lc1[L] < letterset[L])

(***************************************************************************)
(* The re module, for the expressions the model uses: an optional leading  *)
(* '^' followed by literal letters, and a character class '[...]'.         *)
(* re_compile gives [error |-> TRUE] where re.compile raises re.error      *)
(* (a '[' that no ']' closes).                                             *)
(***************************************************************************)
re_compile(value) ==
    IF \E i \in 1..Len(value) :
           value[i] = "[" /\ ~ \E j \in (i + 1)..Len(value) : value[j] = "]"
    THEN [error |-> TRUE]
    ELSE IF value # <<>> /\ value[1] = "[" /\ value[Len(value)] = "]"
    THEN [error |-> FALSE, class |-> {value[i] : i \in 2..(Len(value) - 1)}]
    ELSE IF value # <<>> /\ value[1] = "^"
    THEN [error |-> FALSE, anchored |-> TRUE, body |-> Tail(value)]
    ELSE [error |-> FALSE, anchored |-> FALSE, body |-> value]

\* regex.search(word) is not None
re_search(regex, word) ==
    IF "class" \in DOMAIN regex
    THEN \E i \in 1..Len(word) : word[i] \in regex.class
    ELSE IF regex.anchored
    THEN /\ Len(regex.body) <= Len(word)
         /\ SubSeq(word, 1, Len(regex.body)) = regex.body
    ELSE \E i \in 0..(Len(word) - Len(regex.body)) :
             SubSeq(word, i + 1, i + Len(regex.body)) = regex.body

\* "".join(excl_set): the members of the set in some order.
RECURSIVE join(_)
join(S) ==
    IF S = {} THEN <<>>
    ELSE LET x == CHOOSE y \in S : TRUE IN <<x>> \o join(S \ {x})


(***************************************************************************)
(* The files a dictionary can be read from: name -> lines. open() of a     *)
(* name outside DOMAIN FileSystem raises IOError.                          *)
(***************************************************************************)
cat == <<"c", "a", "t">>
coat == <<"c", "o", "a", "t">>
cost == <<"c", "o", "s", "t">>
tat == <<"t", "a", "t">>
act == <<"a", "c", "t">>

FileSystem ==
    [wordlist |-> << cat \o <<"\n">>, coat \o <<"\n">>, cost \o <<"\n">>, tat \o <<"\n">> >>,
     words2   |-> << <<" ">> \o act \o <<"\n">>, cat \o <<" ", "\n">>, cat >>]

\* open(filename, 'r')
open(filename) ==
    IF filename \in DOMAIN FileSystem
    THEN [error |-> FALSE, isfile |-> TRUE, name |-> filename, lines |-> FileSystem[filename]]
    ELSE [error |-> TRUE]

_load_wordlist(filename) ==
    LET name == IF filename = "" THEN _DEFAULT_DICTIONARY_FILE ELSE filename
        filehandle == open(name)
    IN IF filehandle.error THEN [error |-> TRUE]
       ELSE [error |-> FALSE, wordlist |-> _read_wordlist(filehandle.lines)]

(***************************************************************************)
(* class WordTool                                                          *)
(***************************************************************************)
VARIABLES
    _max_length, _effective_max_length, _min_length, _effective_min_length,
    _available_letters, _available_letters_counted, _limited_letters,
    _excluded_letters, _excluded_letters_regex,
    _included_letters, _included_letters_counted,
    _pattern, _regex, wordlist, _cache_is_good, _cached_words, extra_tests,
    _dictionary_file,
    op,       \* the method or property setter called last ("__init__" at first)
    arg,      \* the argument it was called with (None for find_words)
    ret,      \* what it returned (None for a setter)
    raised,   \* the exception it raised, "" when it returned normally
    was_good  \* _cache_is_good as that call found it

fields == << _max_length, _effective_max_length, _min_length, _effective_min_length,
             _available_letters, _available_letters_counted, _limited_letters,
             _excluded_letters, _excluded_letters_regex,
             _included_letters, _included_letters_counted,
             _pattern, _regex, wordlist, _cache_is_good, _cached_words, extra_tests,
             _dictionary_file >>
vars == << fields, op, arg, ret, raised, was_good >>

\* The WordTool object as a record of its attributes.
self ==
    [_max_length |-> _max_length, _effective_max_length |-> _effective_max_length,
     _min_length |-> _min_length, _effective_min_length |-> _effective_min_length,
     _available_letters |-> _available_letters,
     _available_letters_counted |-> _available_letters_counted,
     _limited_letters |-> _limited_letters,
     _excluded_letters |-> _excluded_letters,
     _excluded_letters_regex |-> _excluded_letters_regex,
     _included_letters |-> _included_letters,
     _included_letters_counted |-> _included_letters_counted,
     _pattern |-> _pattern, _regex |-> _regex, wordlist |-> wordlist,
     _cache_is_good |-> _cache_is_good, _cached_words |-> _cached_words,
     extra_tests |-> extra_tests, _dictionary_file |-> _dictionary_file]

\* A call's outcome: the object after it, the value returned, the exception raised.
Return(t, value) == [t |-> t, ret |-> value, raised |-> ""]
Raise(t, exception) == [t |-> t, ret |-> None, raised |-> exception]

\* Fault variant of dictionary_file: the word list is emptied before the load.
dictionary_file_clearing_first(t, value) ==
    LET t1 == [t EXCEPT !._cache_is_good = FALSE, !.wordlist = <<>>]
        v == IF value = "" THEN _DEFAULT_DICTIONARY_FILE ELSE value
        t2 == [t1 EXCEPT !._dictionary_file = v]
        loaded == _load_wordlist(v)
    IN IF loaded.error THEN Raise(t2, "IOError")
       ELSE Return([t2 EXCEPT !.wordlist = loaded.wordlist], None)

dictionary_file(t, value) ==
    LET t1 == [t EXCEPT !._cache_is_good = FALSE]
        v == IF value = "" THEN _DEFAULT_DICTIONARY_FILE ELSE value
        t2 == [t1 EXCEPT !._dictionary_file = v]
        loaded == _load_wordlist(v)
    IN IF loaded.error THEN Raise(t2, "IOError")
       ELSE Return([t2 EXCEPT !.wordlist = loaded.wordlist], None)

read_dictionary_from(t, filehandle) ==
    IF ~ filehandle.isfile THEN Raise(t, "TypeError")
    ELSE Return([t EXCEPT !._dictionary_file = filehandle.name,
                          !.wordlist = _read_wordlist(filehandle.lines)], None)

\* t.wordlist = value (a plain attribute)
wordlist_assign(t, value) == Return([t EXCEPT !.wordlist = value], None)

\* Fault variant of the extra_tests assignment: it marks the cache stale.
extra_tests_assign_invalidating(t, value) ==
    Return([t EXCEPT !.extra_tests = value, !._cache_is_good = FALSE], None)

\* t.extra_tests = value (a plain attribute)
extra_tests_assign(t, value) == Return([t EXCEPT !.extra_tests = value], None)

_update_effective_max_length(t) ==
    IF t._max_length # 0 /\ t._available_letters # <<>>
    THEN [t EXCEPT !._effective_max_length =
              IF t._max_length < Len(t._available_letters)
              THEN t._max_length ELSE Len(t._available_letters)]
    ELSE IF t._available_letters # <<>>
    THEN [t EXCEPT !._effective_max_length = Len(t._available_letters)]
    ELSE IF t._max_length # 0
    THEN [t EXCEPT !._effective_max_length = t._max_length]
    ELSE [t EXCEPT !._effective_max_length = 0]

_update_effective_min_length(t) ==
    IF t._min_length # 0 /\ t._included_letters # <<>>
    THEN [t EXCEPT !._effective_min_length =
              IF t._min_length > Len(t._included_letters)
              THEN t._min_length ELSE Len(t._included_letters)]
    ELSE IF t._included_letters # <<>>
    THEN [t EXCEPT !._effective_min_length = Len(t._included_letters)]
    ELSE IF t._min_length # 0
    THEN [t EXCEPT !._effective_min_length = t._min_length]
    ELSE [t EXCEPT !._effective_min_length = 0]

\* Fault variant of _update_excluded_letters_regex: the letters of zero
\* allowance are excluded even when available_letters holds wildcards.
_update_excluded_letters_regex_ignoring_wildcards(t) ==
    LET excl_set0 == {t._excluded_letters[i] : i \in 1..Len(t._excluded_letters)}
        unavailable_letters ==
            IF t._available_letters # <<>>
            THEN {L \in DOMAIN t._available_letters_counted :
                      t._available_letters_counted[L] = 0}
            ELSE {}
        excl_set == excl_set0 \cup unavailable_letters
    IN IF excl_set # {}
       THEN [t EXCEPT !._excluded_letters_regex =
                 re_compile(<<"[">> \o join(excl_set) \o <<"]">>)]
       ELSE [t EXCEPT !._excluded_letters_regex = None]

_update_excluded_letters_regex(t) ==
    LET excl_set0 == {t._excluded_letters[i] : i \in 1..Len(t._excluded_letters)}
        unavailable_letters ==
            IF t._available_letters # <<>> /\ t._available_letters_counted["?"] = 0
            THEN {L \in DOMAIN t._available_letters_counted :
                      t._available_letters_counted[L] = 0}
            ELSE {}
        excl_set == excl_set0 \cup unavailable_letters
    IN IF excl_set # {}
       THEN [t EXCEPT !._excluded_letters_regex =
                 re_compile(<<"[">> \o join(excl_set) \o <<"]">>)]
       ELSE [t EXCEPT !._excluded_letters_regex = None]

\* Fault variant of max_length: the effective bound is not recomputed.
max_length_without_update(t, value) ==
    Return([t EXCEPT !._cache_is_good = FALSE, !._max_length = value], None)

max_length(t, value) ==
    Return(_update_effective_max_length(
               [t EXCEPT !._cache_is_good = FALSE, !._max_length = value]), None)

min_length(t, value) ==
    Return(_update_effective_min_length(
               [t EXCEPT !._cache_is_good = FALSE, !._min_length = value]), None)

\* Fault variant of available_letters: the stored tally is not cleared when the
\* value is emptied.
available_letters_keeping_tally(t, value) ==
    IF value = t._available_letters THEN Return(t, None)
    ELSE LET t1 == [t EXCEPT !._cache_is_good = FALSE]
         IN IF t1._limited_letters # <<>> THEN Raise(t1, "AttributeError")
            ELSE LET t2 == [t1 EXCEPT
                               !._available_letters = value,
                               !._available_letters_counted =
                                   IF value # <<>> THEN _letter_count(value) ELSE @]
                 IN Return(_update_excluded_letters_regex(
                               _update_effective_max_length(t2)), None)

\* Fault variant of available_letters: the cache is marked stale before the
\* value is compared with the one held.
available_letters_invalidating_first(t, value) ==
    LET t1 == [t EXCEPT !._cache_is_good = FALSE]
    IN IF value = t1._available_letters THEN Return(t1, None)
       ELSE IF t1._limited_letters # <<>> THEN Raise(t1, "AttributeError")
       ELSE LET t2 == [t1 EXCEPT
                          !._available_letters = value,
                          !._available_letters_counted =
                              IF value # <<>> THEN _letter_count(value) ELSE None]
            IN Return(_update_excluded_letters_regex(
                          _update_effective_max_length(t2)), None)

available_letters(t, value) ==
    IF value = t._available_letters THEN Return(t, None)
    ELSE LET t1 == [t EXCEPT !._cache_is_good = FALSE]
         IN IF t1._limited_letters # <<>> THEN Raise(t1, "AttributeError")
            ELSE LET t2 == [t1 EXCEPT
                               !._available_letters = value,
                               !._available_letters_counted =
                                   IF value # <<>> THEN _letter_count(value) ELSE None]
                 IN Return(_update_excluded_letters_regex(
                               _update_effective_max_length(t2)), None)

\* Fault variant of limited_letters: the value is stored before the conflict
\* with available_letters is detected.
limited_letters_assigning_first(t, value) ==
    IF value = t._limited_letters THEN Return(t, None)
    ELSE LET t1 == [t EXCEPT !._cache_is_good = FALSE, !._limited_letters = value]
         IN IF t1._available_letters # <<>> THEN Raise(t1, "AttributeError")
            ELSE Return(_update_excluded_letters_regex(
                            [t1 EXCEPT !._available_letters_counted =
                                           IF value # <<>>
                                           THEN _limiting_letter_count(value)
                                           ELSE None]), None)

limited_letters(t, value) ==
    IF value = t._limited_letters THEN Return(t, None)
    ELSE LET t1 == [t EXCEPT !._cache_is_good = FALSE]
         IN IF t1._available_letters # <<>> THEN Raise(t1, "AttributeError")
            ELSE LET t2 == [t1 EXCEPT
                               !._limited_letters = value,
                               !._available_letters_counted =
                                   IF value # <<>> THEN _limiting_letter_count(value)
                                   ELSE None]
                 IN Return(_update_excluded_letters_regex(t2), None)

\* Fault variant of excluded_letters: the cached result is not invalidated.
excluded_letters_keeping_cache(t, value) ==
    Return(_update_excluded_letters_regex([t EXCEPT !._excluded_letters = value]), None)

excluded_letters(t, value) ==
    Return(_update_excluded_letters_regex(
               [t EXCEPT !._cache_is_good = FALSE, !._excluded_letters = value]), None)

\* Fault variant of included_letters: the effective bound is not recomputed.
included_letters_without_update(t, value) ==
    Return([t EXCEPT !._cache_is_good = FALSE,
                     !._included_letters = value,
                     !._included_letters_counted =
                         IF value # <<>> THEN _letter_count(value) ELSE None], None)

included_letters(t, value) ==
    Return(_update_effective_min_length(
               [t EXCEPT !._cache_is_good = FALSE,
                         !._included_letters = value,
                         !._included_letters_counted =
                             IF value # <<>> THEN _letter_count(value) ELSE None]), None)

\* Fault variant of pattern: a malformed expression is stored without an error.
pattern_swallowing_error(t, value) ==
    LET t1 == [t EXCEPT !._cache_is_good = FALSE, !._pattern = value]
    IN IF value # <<>>
       THEN IF re_compile(value).error THEN Return(t1, None)
            ELSE Return([t1 EXCEPT !._regex = re_compile(value)], None)
       ELSE Return([t1 EXCEPT !._regex = None], None)

pattern(t, value) ==
    LET t1 == [t EXCEPT !._cache_is_good = FALSE, !._pattern = value]
    IN IF value # <<>>
       THEN IF re_compile(value).error THEN Raise(t1, "re.error")
            ELSE Return([t1 EXCEPT !._regex = re_compile(value)], None)
       ELSE Return([t1 EXCEPT !._regex = None], None)


check_for(t, word) ==
    Return(t, \E i \in 1..Len(t.wordlist) : t.wordlist[i] = word)

\* Fault variant of passes_internal_tests: the included-letters check is made
\* only when no letter budget is in force.
passes_internal_tests_skipping_included(t, word) ==
    IF t._effective_min_length # 0 /\ Len(word) < t._effective_min_length THEN FALSE
    ELSE IF t._effective_max_length # 0 /\ Len(word) > t._effective_max_length THEN FALSE
    ELSE IF t._regex # None /\ ~ re_search(t._regex, word) THEN FALSE
    ELSE IF t._excluded_letters_regex # None /\ re_search(t._excluded_letters_regex, word)
    THEN FALSE
    ELSE IF t._available_letters_counted # None
    THEN _word_is_subset_of(word, t._available_letters_counted).is_subset
    ELSE IF /\ t._included_letters_counted # None
            /\ ~ _word_contains_at_least(word, t._included_letters_counted, None)
    THEN FALSE
    ELSE TRUE

passes_internal_tests(t, word) ==
    IF t._effective_min_length # 0 /\ Len(word) < t._effective_min_length THEN FALSE
    ELSE IF t._effective_max_length # 0 /\ Len(word) > t._effective_max_length THEN FALSE
    ELSE IF t._regex # None /\ ~ re_search(t._regex, word) THEN FALSE
    ELSE IF t._excluded_letters_regex # None /\ re_search(t._excluded_letters_regex, word)
    THEN FALSE
    ELSE LET subset == IF t._available_letters_counted # None
                       THEN _word_is_subset_of(word, t._available_letters_counted)
                       ELSE [is_subset |-> TRUE, Lc |-> None]
         IN IF ~ subset.is_subset THEN FALSE
            ELSE IF /\ t._included_letters_counted # None
                    /\ ~ _word_contains_at_least(word, t._included_letters_counted, subset.Lc)
            THEN FALSE
            ELSE TRUE

\* The predicates a caller can put in extra_tests, by name.
contains_a(word) == \E i \in 1..Len(word) : word[i] = "a"
four_letters(word) == Len(word) = 4
test(name, word) ==
    IF name = "contains_a" THEN contains_a(word) ELSE four_letters(word)

RECURSIVE passes_extra_tests_loop(_, _, _)
passes_extra_tests_loop(tests, i, word) ==
    IF i > Len(tests) THEN TRUE
    ELSE IF ~ test(tests[i], word) THEN FALSE
    ELSE passes_extra_tests_loop(tests, i + 1, word)
\* Fault variant of passes_extra_tests: only the first predicate is consulted.
passes_extra_tests_first_only(t, word) ==
    t.extra_tests = <<>> \/ test(t.extra_tests[1], word)

passes_extra_tests(t, word) == passes_extra_tests_loop(t.extra_tests, 1, word)

is_word_valid(t, word) ==
    Return(t, passes_internal_tests(t, word) /\ passes_extra_tests(t, word))

\* Fault variant of find_words: a result served from the cache skips the
\* extra tests.
find_words_unfiltered_reuse(t) ==
    LET pass_internal(w) == passes_internal_tests(t, w)
        pass_extra(w) == passes_extra_tests(t, w)
    IN IF ~ t._cache_is_good
       THEN LET t1 == [t EXCEPT !._cached_words = SelectSeq(t.wordlist, pass_internal),
                                !._cache_is_good = TRUE]
            IN Return(t1, SelectSeq(t1._cached_words, pass_extra))
       ELSE Return(t, t._cached_words)

find_words(t) ==
    LET pass_internal(w) == passes_internal_tests(t, w)
        t1 == IF ~ t._cache_is_good
              THEN [t EXCEPT !._cached_words = SelectSeq(t.wordlist, pass_internal),
                             !._cache_is_good = TRUE]
              ELSE t
        pass_extra(w) == passes_extra_tests(t1, w)
    IN Return(t1, SelectSeq(t1._cached_words, pass_extra))

\* WordTool(): the attributes as __init__ sets them, then the dictionary_file setter.
__init__(file) ==
    dictionary_file(
        [_max_length |-> 0, _effective_max_length |-> 0,
         _min_length |-> 0, _effective_min_length |-> 0,
         _available_letters |-> <<>>, _available_letters_counted |-> None,
         _limited_letters |-> <<>>,
         _excluded_letters |-> <<>>, _excluded_letters_regex |-> None,
         _included_letters |-> <<>>, _included_letters_counted |-> None,
         _pattern |-> <<>>, _regex |-> None, wordlist |-> <<>>,
         _cache_is_good |-> FALSE, _cached_words |-> <<>>,
         extra_tests |-> <<>>, _dictionary_file |-> ""],
        file)

(***************************************************************************)
(* The state machine: the object after construction, then any call.        *)
(***************************************************************************)
\* The values the calls are made with.
W1 == _read_wordlist(FileSystem["wordlist"])
W2 == _read_wordlist(FileSystem["words2"])
NotAFile == [error |-> FALSE, isfile |-> FALSE]
\* A word with more than _LETTER_MAX_COUNT occurrences of one letter.
RECURSIVE Repeat(_, _)
Repeat(L, n) ==
    IF n = 0 THEN <<>>
    ELSE IF n = 1 THEN <<L>>
    ELSE Repeat(L, n \div 2) \o Repeat(L, n - (n \div 2))
LongWord == Repeat("o", _LETTER_MAX_COUNT + 1)

\* The object becomes r.t; the caller sees r.ret or r.raised.
Call(name, value, r) ==
    /\ _max_length' = r.t._max_length
    /\ _effective_max_length' = r.t._effective_max_length
    /\ _min_length' = r.t._min_length
    /\ _effective_min_length' = r.t._effective_min_length
    /\ _available_letters' = r.t._available_letters
    /\ _available_letters_counted' = r.t._available_letters_counted
    /\ _limited_letters' = r.t._limited_letters
    /\ _excluded_letters' = r.t._excluded_letters
    /\ _excluded_letters_regex' = r.t._excluded_letters_regex
    /\ _included_letters' = r.t._included_letters
    /\ _included_letters_counted' = r.t._included_letters_counted
    /\ _pattern' = r.t._pattern
    /\ _regex' = r.t._regex
    /\ wordlist' = r.t.wordlist
    /\ _cache_is_good' = r.t._cache_is_good
    /\ _cached_words' = r.t._cached_words
    /\ extra_tests' = r.t.extra_tests
    /\ _dictionary_file' = r.t._dictionary_file
    /\ op' = name
    /\ arg' = value
    /\ ret' = r.ret
    /\ raised' = r.raised
    /\ was_good' = _cache_is_good

Init ==
    LET r == __init__(_DEFAULT_DICTIONARY_FILE)
    IN /\ r.raised = ""
       /\ _max_length = r.t._max_length
       /\ _effective_max_length = r.t._effective_max_length
       /\ _min_length = r.t._min_length
       /\ _effective_min_length = r.t._effective_min_length
       /\ _available_letters = r.t._available_letters
       /\ _available_letters_counted = r.t._available_letters_counted
       /\ _limited_letters = r.t._limited_letters
       /\ _excluded_letters = r.t._excluded_letters
       /\ _excluded_letters_regex = r.t._excluded_letters_regex
       /\ _included_letters = r.t._included_letters
       /\ _included_letters_counted = r.t._included_letters_counted
       /\ _pattern = r.t._pattern
       /\ _regex = r.t._regex
       /\ wordlist = r.t.wordlist
       /\ _cache_is_good = r.t._cache_is_good
       /\ _cached_words = r.t._cached_words
       /\ extra_tests = r.t.extra_tests
       /\ _dictionary_file = r.t._dictionary_file
       /\ op = "__init__"
       /\ arg = _DEFAULT_DICTIONARY_FILE
       /\ ret = None
       /\ raised = ""
       /\ was_good = FALSE

SetDictionaryFile(values) ==
    \E value \in values : Call("dictionary_file", value, dictionary_file(self, value))
ReadDictionaryFrom(values) ==
    \E filehandle \in values :
        Call("read_dictionary_from", filehandle, read_dictionary_from(self, filehandle))
SetWordlist(values) ==
    \E value \in values : Call("wordlist", value, wordlist_assign(self, value))
SetExtraTests(values) ==
    \E value \in values : Call("extra_tests", value, extra_tests_assign(self, value))
SetMaxLength(values) ==
    \E value \in values : Call("max_length", value, max_length(self, value))
SetMinLength(values) ==
    \E value \in values : Call("min_length", value, min_length(self, value))
SetAvailableLetters(values) ==
    \E value \in values : Call("available_letters", value, available_letters(self, value))
SetLimitedLetters(values) ==
    \E value \in values : Call("limited_letters", value, limited_letters(self, value))
SetExcludedLetters(values) ==
    \E value \in values : Call("excluded_letters", value, excluded_letters(self, value))
SetIncludedLetters(values) ==
    \E value \in values : Call("included_letters", value, included_letters(self, value))
SetPattern(values) ==
    \E value \in values : Call("pattern", value, pattern(self, value))
CheckFor(words) == \E word \in words : Call("check_for", word, check_for(self, word))
IsWordValid(words) == \E word \in words : Call("is_word_valid", word, is_word_valid(self, word))
FindWords == Call("find_words", None, find_words(self))

(***************************************************************************)
(* Spec: every operation of the object, each with a few values.            *)
(***************************************************************************)
SmallLength == 3
BigLength == 4
Next ==
    \/ SetDictionaryFile({"words2", "missing"})
    \/ ReadDictionaryFrom({open("words2"), NotAFile})
    \/ SetWordlist({<<coat, act>>})
    \/ SetExtraTests({<<>>, <<"contains_a", "four_letters">>})
    \/ SetMaxLength({0, SmallLength})
    \/ SetMinLength({0, BigLength})
    \/ SetAvailableLetters({<<>>, cat \o <<"?">>})
    \/ SetLimitedLetters({<<>>, <<"a", "t">>})
    \/ SetExcludedLetters({<<>>, <<"s">>})
    \/ SetIncludedLetters({<<>>, <<"t", "t">>})
    \/ SetPattern({<<>>, <<"^", "c">>, <<"[", "a">>})
    \/ CheckFor({tat})
    \/ IsWordValid({coat})
    \/ FindWords

Spec == Init /\ [][Next]_vars


(***************************************************************************)
(* SpecLength: the setters the effective length bounds depend on, with     *)
(* every length from 0 to MaxLength.                                       *)
(***************************************************************************)
MaxLength == 5
NextLength ==
    \/ SetMaxLength(0..MaxLength)
    \/ SetMinLength(0..MaxLength)
    \/ SetAvailableLetters({<<>>, cat, cat \o <<"?">>})
    \/ SetLimitedLetters({<<>>, <<"a", "t">>})
    \/ SetIncludedLetters({<<>>, cat, <<"t", "t">>})

SpecLength == Init /\ [][NextLength]_vars

Min(a, b) == IF a < b THEN a ELSE b
Max(a, b) == IF a > b THEN a ELSE b

\* C6: the effective max length is min(maxLength, len(availableLetters)) if both
\* are set and positive, otherwise whichever of the two is set, otherwise 0.
C6_EffectiveMaxLength ==
    _effective_max_length =
        IF _max_length > 0 /\ Len(_available_letters) > 0
        THEN Min(_max_length, Len(_available_letters))
        ELSE IF _max_length > 0 THEN _max_length
        ELSE IF Len(_available_letters) > 0 THEN Len(_available_letters)
        ELSE 0

\* max_length was set to a bound larger than the four available letters.
C6_Witness ==
    /\ op = "max_length"
    /\ _max_length = MaxLength
    /\ _available_letters = cat \o <<"?">>
    /\ _effective_max_length = 4

\* C7: the effective min length is max(minLength, len(includedLetters)) if both
\* are set and positive, otherwise whichever is set, otherwise 0; includedLetters
\* "cat" gives 3 with minLength unset and 5 with minLength 5.
C7_EffectiveMinLength ==
    /\ _effective_min_length =
           IF _min_length > 0 /\ Len(_included_letters) > 0
           THEN Max(_min_length, Len(_included_letters))
           ELSE IF _min_length > 0 THEN _min_length
           ELSE IF Len(_included_letters) > 0 THEN Len(_included_letters)
           ELSE 0
    /\ _included_letters = cat /\ _min_length = 0 => _effective_min_length = 3
    /\ _included_letters = cat /\ _min_length = 5 => _effective_min_length = 5

\* included_letters was set to "cat" while min_length was 5.
C7_Witness ==
    /\ op = "included_letters"
    /\ _included_letters = cat
    /\ _min_length = 5
    /\ _effective_min_length = 5


(***************************************************************************)
(* SpecFixed: the word list stays the one loaded at construction; the      *)
(* constraint setters are called with values they accept or reject without *)
(* changing a constraint (every pattern is well-formed), extra_tests is    *)
(* assigned, find_words is called.                                         *)
(***************************************************************************)
NextFixed ==
    \/ SetExtraTests({<<>>, <<"contains_a">>, <<"contains_a", "four_letters">>})
    \/ SetMaxLength({0, SmallLength, BigLength})
    \/ SetMinLength({0, SmallLength, BigLength})
    \/ SetAvailableLetters({<<>>, cat, cat \o <<"?">>})
    \/ SetLimitedLetters({<<>>, <<"a", "t">>})
    \/ SetExcludedLetters({<<>>, <<"s">>, <<"a", "s">>})
    \/ SetIncludedLetters({<<>>, <<"o">>, <<"t", "t">>})
    \/ SetPattern({<<>>, <<"^", "c">>, <<"a", "t">>})
    \/ FindWords

SpecFixed == Init /\ [][NextFixed]_vars

\* What the constraints mean, stated on the constraint values themselves.
Count(s, L) == Cardinality({i \in 1..Len(s) : s[i] = L})

RECURSIVE Sum(_, _)
Sum(f, S) ==
    IF S = {} THEN 0
    ELSE LET x == CHOOSE y \in S : TRUE IN f[x] + Sum(f, S \ {x})

\* The occurrences of letters in w beyond what supply allows, over all letters.
TotalExcess(w, supply) ==
    Sum([L \in Letters |-> Max(0, Count(w, L) - supply[L])], Letters)

EffectiveMinLength ==
    IF _min_length > 0 /\ Len(_included_letters) > 0
    THEN Max(_min_length, Len(_included_letters))
    ELSE IF _min_length > 0 THEN _min_length
    ELSE Len(_included_letters)

EffectiveMaxLength ==
    IF _max_length > 0 /\ Len(_available_letters) > 0
    THEN Min(_max_length, Len(_available_letters))
    ELSE IF _max_length > 0 THEN _max_length
    ELSE Len(_available_letters)

\* The letter budget: the letters of availableLetters with its '?' as slack, or
\* the letters limitedLetters lists, any other letter being in practically
\* unlimited supply (_LETTER_MAX_COUNT).
WithinLetterBudget(w) ==
    IF _available_letters # <<>>
    THEN TotalExcess(w, [L \in Letters |-> Count(_available_letters, L)])
             <= Count(_available_letters, "?")
    ELSE IF _limited_letters # <<>>
    THEN TotalExcess(w, [L \in Letters |->
                            IF Count(_limited_letters, L) > 0
                            THEN Count(_limited_letters, L) ELSE _LETTER_MAX_COUNT])
             <= Count(_limited_letters, "?")
    ELSE TRUE

SatisfiesConstraints(w) ==
    /\ EffectiveMinLength > 0 => Len(w) >= EffectiveMinLength
    /\ EffectiveMaxLength > 0 => Len(w) <= EffectiveMaxLength
    /\ _pattern # <<>> => re_search(re_compile(_pattern), w)
    /\ \A i \in 1..Len(w) : \A j \in 1..Len(_excluded_letters) : w[i] # _excluded_letters[j]
    /\ WithinLetterBudget(w)
    /\ \A L \in Letters : Count(w, L) >= Count(_included_letters, L)

SatisfiesAll(w) ==
    /\ SatisfiesConstraints(w)
    /\ \A i \in 1..Len(extra_tests) : test(extra_tests[i], w)

\* C1: with the word list fixed, every find_words() returns exactly the words of
\* the word list that satisfy all constraints as currently set and all extra
\* tests, never a result computed under earlier constraint values.
C1_FindWordsCurrent ==
    op = "find_words" => ret = SelectSeq(wordlist, SatisfiesAll)

\* find_words answered under a letter budget, an exclusion, a length bound and an
\* extra test, all set after construction, and kept some words but not all.
C1_Witness ==
    /\ op = "find_words"
    /\ _available_letters = cat \o <<"?">>
    /\ _excluded_letters = <<"s">>
    /\ _min_length = SmallLength
    /\ extra_tests = <<"contains_a">>
    /\ ret = <<cat, coat, tat>>


(***************************************************************************)
(* SpecBudget: the two letter-budget setters with more values, and         *)
(* is_word_valid on every word of up to MaxWordLength letters.             *)
(***************************************************************************)
MaxWordLength == 3
BudgetWords ==
    UNION {[1..n -> Letters] : n \in 1..MaxWordLength} \cup {coat, cost, LongWord}
AvailableBudgets == {cat, cat \o <<"?">>, <<"t", "?", "?">>, <<"t", "a", "t">>}
LimitedBudgets == {<<"a", "t">>, <<"t", "t">>, <<"o">>}

NextBudget ==
    \/ SetAvailableLetters(AvailableBudgets \cup {<<>>})
    \/ SetLimitedLetters(LimitedBudgets \cup {<<>>})
    \/ IsWordValid(BudgetWords)

SpecBudget == Init /\ [][NextBudget]_vars

\* C3: setting limitedLetters to a non-empty value while availableLetters is
\* non-empty fails with an error and leaves availableLetters, limitedLetters and
\* the letter-budget multiset unchanged; symmetrically for availableLetters set to
\* a new non-empty value while limitedLetters is non-empty.
C3_MutualExclusion ==
    /\ _available_letters # <<>> =>
           \A value \in LimitedBudgets :
               LET r == limited_letters(self, value)
               IN /\ r.raised = "AttributeError"
                  /\ r.t._available_letters = _available_letters
                  /\ r.t._limited_letters = _limited_letters
                  /\ r.t._available_letters_counted = _available_letters_counted
    /\ _limited_letters # <<>> =>
           \A value \in AvailableBudgets \ {_available_letters} :
               LET r == available_letters(self, value)
               IN /\ r.raised = "AttributeError"
                  /\ r.t._available_letters = _available_letters
                  /\ r.t._limited_letters = _limited_letters
                  /\ r.t._available_letters_counted = _available_letters_counted

\* limited_letters was assigned a non-empty value while available_letters was
\* "cat?", and raised.
C3_Witness ==
    /\ op = "limited_letters"
    /\ arg = <<"a", "t">>
    /\ raised = "AttributeError"
    /\ _available_letters = cat \o <<"?">>
    /\ _available_letters_counted = _letter_count(cat \o <<"?">>)
    /\ _limited_letters = <<>>

\* C4: with availableLetters = A non-empty, a word passes the letter budget iff
\* its total excess over A is at most the number of '?' in A; with A = "cat?" a
\* word needing one letter outside {c,a,t} passes and one needing two fails.
C4_WildcardBudget ==
    /\ _available_letters # <<>> =>
           \A w \in BudgetWords :
               _word_is_subset_of(w, _available_letters_counted).is_subset
                   <=> TotalExcess(w, [L \in Letters |-> Count(_available_letters, L)])
                           <= Count(_available_letters, "?")
    /\ _available_letters = cat \o <<"?">> =>
           /\ _word_is_subset_of(coat, _available_letters_counted).is_subset
           /\ ~ _word_is_subset_of(cost, _available_letters_counted).is_subset

\* is_word_valid accepted "coat" under availableLetters "cat?": the 'o' took the
\* wildcard.
C4_Witness ==
    /\ op = "is_word_valid"
    /\ arg = coat
    /\ ret = TRUE
    /\ _available_letters = cat \o <<"?">>

\* C5: with limitedLetters = S non-empty, a word passes the letter budget iff it
\* contains every letter that occurs in S at most as many times as S does; no
\* number of occurrences of an unlisted letter causes rejection.
C5_LimitedLetters ==
    _limited_letters # <<>> =>
        \A w \in BudgetWords :
            _word_is_subset_of(w, _available_letters_counted).is_subset
                <=> \A L \in Letters :
                        Count(_limited_letters, L) > 0 =>
                            Count(w, L) <= Count(_limited_letters, L)


(***************************************************************************)
(* Claims about the whole object (Spec).                                   *)
(***************************************************************************)
IsIn(w, words) == \E i \in 1..Len(words) : words[i] = w

\* C2: after the word list is replaced by any route (dictionary_file,
\* read_dictionary_from, assignment to wordlist), find_words() returns only
\* words of the new word list that pass the constraints, even if a find_words()
\* call preceded the replacement and no constraint changed.
C2_ReplacementInvalidates ==
    op = "find_words" =>
        \A i \in 1..Len(ret) :
            /\ IsIn(ret[i], wordlist)
            /\ is_word_valid(self, ret[i]).ret

\* C8: find_words() called again with no mutation in between returns the same
\* sequence: the call served from the cache agrees with the one that rebuilt it.
C8_Idempotent ==
    op = "find_words" => _cache_is_good /\ find_words(self).ret = ret

\* find_words was served from the cache (the cache was good when it was called)
\* and its result is a proper part of the cached words, the extra tests having
\* removed some.
C8_Witness ==
    /\ op = "find_words"
    /\ was_good
    /\ extra_tests # <<>>
    /\ ret # <<>>
    /\ Len(ret) < Len(_cached_words)
    /\ Len(_cached_words) < Len(wordlist)

\* C9: in any state, adding a letter to excludedLetters and calling find_words()
\* gives a subset of what find_words() gave before the letter was added.
C9_MonotonicTightening ==
    \A L \in Letters :
        LET before == find_words(self)
            tightened == excluded_letters(before.t, Append(_excluded_letters, L))
            after == find_words(tightened.t)
        IN \A i \in 1..Len(after.ret) : IsIn(after.ret[i], before.ret)

ConstraintSetters ==
    {"max_length", "min_length", "available_letters", "limited_letters",
     "excluded_letters", "included_letters", "pattern"}
WordlistReplacers == {"dictionary_file", "read_dictionary_from", "wordlist"}

\* C10: the cache goes Fresh to Stale only when a constraint is mutated or the
\* word list is replaced, and Stale to Fresh only by find_words(); no other
\* operation, a setter call rejected with an error included, changes it.
C10_CacheTransitions ==
    /\ was_good /\ ~ _cache_is_good =>
           op \in ConstraintSetters \cup WordlistReplacers /\ raised = ""
    /\ ~ was_good /\ _cache_is_good => op = "find_words"

\* C10 as amended: Fresh to Stale happens only in a constraint-setter call or a
\* word-list replacement call, whether it returns or raises; Stale to Fresh only
\* in a find_words() call; check_for, is_word_valid and the assignment of
\* extra_tests leave the cache state as it was.
C10_CacheTransitionsAmended ==
    /\ was_good /\ ~ _cache_is_good => op \in ConstraintSetters \cup WordlistReplacers
    /\ ~ was_good /\ _cache_is_good => op = "find_words" /\ raised = ""
    /\ op \in {"check_for", "is_word_valid", "extra_tests"} => _cache_is_good = was_good

\* A limited_letters assignment found the cache Fresh, was rejected, and left it
\* Stale.
C10_Witness ==
    /\ op = "limited_letters"
    /\ raised = "AttributeError"
    /\ was_good
    /\ ~ _cache_is_good

\* C11: a malformed pattern raises in the pattern setter itself; the compiled
\* regex the queries use is always absent or a successfully compiled one, so
\* find_words and is_word_valid never raise, whatever calls came before.
C11_MalformedPatternFailsAtSet ==
    /\ op = "pattern" /\ re_compile(arg).error => raised = "re.error"
    /\ _regex # None => ~ _regex.error
    /\ op \in {"find_words", "is_word_valid"} => raised = ""

\* find_words ran, and returned, while the stored pattern string was the
\* malformed one a rejected assignment left behind.
C11_Witness ==
    /\ op = "find_words"
    /\ raised = ""
    /\ _pattern = <<"[", "a">>
    /\ ret # <<>>

\* C12: find_words() returns a subsequence of the word list: the word list
\* filtered, in its order, to the words that were returned, so that every copy
\* of a returned word is kept and no word absent from the word list is returned.
C12_Subsequence ==
    op = "find_words" =>
        LET returned(w) == IsIn(w, ret)
        IN ret = SelectSeq(wordlist, returned)

\* C13: assigning available_letters, or limited_letters, the value it already
\* holds raises nothing and leaves every attribute, the cache flag included, as
\* it was.
C13_SameValueNoOp ==
    /\ available_letters(self, _available_letters) = Return(self, None)
    /\ limited_letters(self, _limited_letters) = Return(self, None)

\* available_letters was assigned the non-empty value it already held while the
\* cache was Fresh, and the cache is still Fresh.
C13_Witness ==
    /\ op = "available_letters"
    /\ arg = _available_letters
    /\ arg # <<>>
    /\ raised = ""
    /\ was_good
    /\ _cache_is_good

ExtraTestValues ==
    {<<>>, <<"contains_a">>, <<"four_letters">>,
     <<"contains_a", "four_letters">>, <<"four_letters", "contains_a">>}
AllTestsTrue(tests, w) == \A i \in 1..Len(tests) : test(tests[i], w)

\* C14: every find_words() result is the cached internal result filtered by all
\* of the extra tests held at that call, the cached internal result being the
\* internally-passing words of the word list whenever that call rebuilt it; and
\* if extra_tests is then changed and find_words() called again, the result is
\* the same cached internal result filtered by the new tests, the cache being
\* neither rebuilt nor marked stale.
C14_ExtraTestsNotCached ==
    op = "find_words" =>
        /\ LET pass(w) == AllTestsTrue(extra_tests, w)
           IN ret = SelectSeq(_cached_words, pass)
        /\ LET pass_internal(w) == passes_internal_tests(self, w)
           IN ~ was_good => _cached_words = SelectSeq(wordlist, pass_internal)
        /\ \A tests \in ExtraTestValues :
               LET r == find_words(extra_tests_assign(self, tests).t)
                   pass(w) == AllTestsTrue(tests, w)
               IN /\ r.ret = SelectSeq(_cached_words, pass)
                  /\ r.t._cached_words = _cached_words
                  /\ r.t._cache_is_good

\* find_words was served from the cache of all four words of the default list
\* and, under the two extra tests, returned only "coat".
C14_Witness ==
    /\ op = "find_words"
    /\ was_good
    /\ extra_tests = <<"contains_a", "four_letters">>
    /\ _cached_words = W1
    /\ ret = <<coat>>

UnreadableSources == {"missing", "nowhere"}

\* C15: a failed load raises and leaves the installed word list as it was:
\* dictionary_file assigned a name that cannot be opened raises IOError,
\* read_dictionary_from given something that is not a file raises TypeError, and
\* in both cases wordlist is unchanged.
C15_FailedLoadKeepsWordlist ==
    /\ \A value \in UnreadableSources :
           LET r == dictionary_file(self, value)
           IN r.raised = "IOError" /\ r.t.wordlist = wordlist
    /\ LET r == read_dictionary_from(self, NotAFile)
       IN r.raised = "TypeError" /\ r.t.wordlist = wordlist
    /\ op \in {"dictionary_file", "read_dictionary_from"} /\ raised # "" => wordlist # <<>>

\* dictionary_file was assigned an unreadable name and raised while a custom
\* word list was installed, and the custom list is still there.
C15_Witness ==
    /\ op = "dictionary_file"
    /\ arg = "missing"
    /\ raised = "IOError"
    /\ wordlist = <<coat, act>>

(***************************************************************************)
(* SpecExclusion: the setters the derived exclusion set depends on, and    *)
(* is_word_valid.                                                          *)
(***************************************************************************)
AllLetters == <<"a", "c", "o", "s", "t">>
ExclusionAvailable == AvailableBudgets \cup {AllLetters}
ExcludedValues == {<<"s">>, <<"a", "s">>, <<"o">>}
NextExclusion ==
    \/ SetAvailableLetters(ExclusionAvailable \cup {<<>>})
    \/ SetLimitedLetters(LimitedBudgets \cup {<<>>})
    \/ SetExcludedLetters(ExcludedValues \cup {<<>>})
    \/ IsWordValid({cat, coat, cost})

SpecExclusion == Init /\ [][NextExclusion]_vars

LettersOf(s) == {s[i] : i \in 1..Len(s)}
\* The members of ks that available_letters gives no allowance, when it is
\* non-empty and holds no '?'.
ZeroAllowance(ks) ==
    IF _available_letters # <<>> /\ Count(_available_letters, "?") = 0
    THEN {k \in ks : Count(_available_letters, k) = 0}
    ELSE {}
\* The derived exclusion is the character class of U, absent when U is empty,
\* and it rejects exactly the words that hold a member of U.
ExclusionIs(U) ==
    /\ (_excluded_letters_regex = None) <=> (U = {})
    /\ _excluded_letters_regex # None => _excluded_letters_regex.class = U
    /\ \A w \in BudgetWords :
           (_excluded_letters_regex # None /\ re_search(_excluded_letters_regex, w))
               <=> \E i \in 1..Len(w) : w[i] \in U

\* C16: the derived exclusion set is the union of the letters of
\* excluded_letters and, when available_letters is non-empty and holds no '?',
\* every letter whose count in available_letters is zero; it is absent exactly
\* when that union is empty and rejects a word iff the word holds a letter of it.
C16_DerivedExclusion ==
    ExclusionIs(LettersOf(_excluded_letters) \cup ZeroAllowance(Letters))

\* C16 as amended: when available_letters is non-empty and holds no '?', the
\* union also holds the '?' character itself, whose count is zero as well.
C16_DerivedExclusionAmended ==
    ExclusionIs(LettersOf(_excluded_letters) \cup ZeroAllowance(Keys))

\* available_letters was set to a value that holds every letter and no '?',
\* nothing is excluded, and the derived exclusion is the class of '?' alone.
C16_Witness ==
    /\ op = "available_letters"
    /\ _available_letters = AllLetters
    /\ _excluded_letters = <<>>
    /\ _excluded_letters_regex # None
    /\ _excluded_letters_regex.class = {"?"}

(***************************************************************************)
(* SpecTests: every constraint setter, rejected calls included, and        *)
(* is_word_valid on a set of words.                                        *)
(***************************************************************************)
TestWords ==
    {cat, coat, cost, tat, act, <<"a", "t">>, <<"t", "o", "t">>,
     <<"c", "o", "a", "s", "t">>}
NextTests ==
    \/ SetMaxLength({0, SmallLength})
    \/ SetMinLength({0, BigLength})
    \/ SetAvailableLetters({<<>>, cat, cat \o <<"?">>})
    \/ SetLimitedLetters({<<>>, <<"a", "t">>})
    \/ SetExcludedLetters({<<>>, <<"s">>})
    \/ SetIncludedLetters({<<>>, <<"o">>, <<"t", "t">>})
    \/ SetPattern({<<>>, <<"^", "c">>, <<"a", "t">>, <<"[", "a">>})
    \/ IsWordValid(TestWords)

SpecTests == Init /\ [][NextTests]_vars

\* The six checks of passes_internal_tests, each on its own.
MinLengthOK(w) == _effective_min_length = 0 \/ Len(w) >= _effective_min_length
MaxLengthOK(w) == _effective_max_length = 0 \/ Len(w) <= _effective_max_length
PatternOK(w) == _regex = None \/ re_search(_regex, w)
ExclusionOK(w) ==
    _excluded_letters_regex = None \/ ~ re_search(_excluded_letters_regex, w)
BudgetOK(w) ==
    _available_letters_counted = None
        \/ _word_is_subset_of(w, _available_letters_counted).is_subset
\* The included-letters check with the word counted from scratch.
IncludedOK(w) ==
    _included_letters_counted = None
        \/ _word_contains_at_least(w, _included_letters_counted, None)

\* C17: passes_internal_tests returns the conjunction of the six checks, the
\* included-letters check being made on a fresh count of the word; and the
\* tally a passed letter-budget check hands over is that fresh count.
C17_ShortCircuitOrder ==
    \A w \in TestWords :
        /\ passes_internal_tests(self, w)
               = (/\ MinLengthOK(w) /\ MaxLengthOK(w) /\ PatternOK(w)
                  /\ ExclusionOK(w) /\ BudgetOK(w) /\ IncludedOK(w))
        /\ _available_letters_counted # None /\ BudgetOK(w) =>
               _word_is_subset_of(w, _available_letters_counted).Lc = _letter_count(w)

\* is_word_valid accepted a word while a letter budget and included letters
\* were both in force: the included-letters check ran on the budget check's
\* tally.
C17_Witness ==
    /\ op = "is_word_valid"
    /\ ret = TRUE
    /\ _available_letters_counted # None
    /\ _included_letters_counted # None

(***************************************************************************)
(* The stored letter budget (SpecBudget).                                  *)
(***************************************************************************)
\* How often each letter, and '?', occurs in s.
LetterTally(s) == [k \in Keys |-> Count(s, k)]
\* The same, with the unlimited supply for the letters s does not list.
LimitingTally(s) ==
    [k \in Keys |-> IF Count(s, k) > 0 THEN Count(s, k)
                    ELSE IF k \in Letters THEN _LETTER_MAX_COUNT ELSE 0]

\* C18: at most one of available_letters and limited_letters is non-empty; the
\* stored letter budget is absent iff both are empty, is the tally of
\* available_letters ('?' included) when that is non-empty, and the
\* unlimited-based tally of limited_letters when that is non-empty.
C18_LetterBudget ==
    /\ _available_letters = <<>> \/ _limited_letters = <<>>
    /\ (_available_letters_counted = None)
           <=> (_available_letters = <<>> /\ _limited_letters = <<>>)
    /\ _available_letters # <<>> =>
           _available_letters_counted = LetterTally(_available_letters)
    /\ _limited_letters # <<>> =>
           _available_letters_counted = LimitingTally(_limited_letters)

\* An available_letters assignment was rejected while limited_letters was "tt",
\* and the stored budget is still that of "tt".
C18_Witness ==
    /\ op = "available_letters"
    /\ raised = "AttributeError"
    /\ _limited_letters = <<"t", "t">>
    /\ _available_letters = <<>>
    /\ _available_letters_counted["t"] = 2
    /\ _available_letters_counted["o"] = _LETTER_MAX_COUNT

(***************************************************************************)
(* The stored pattern and its compilation (Spec).                          *)
(***************************************************************************)
\* C19: in every reachable state, the one after a rejected pattern assignment
\* included, the compiled regex is absent iff the stored pattern string is
\* empty, and is otherwise the compilation of the stored pattern string.
C19_PatternRegexAgree ==
    /\ (_regex = None) <=> (_pattern = <<>>)
    /\ _pattern # <<>> => _regex = re_compile(_pattern)

(***************************************************************************)
(* The derived part of the exclusion set (SpecExclusion).                  *)
(***************************************************************************)
\* The object with the exclusion class made of the letters of excluded_letters
\* alone.
LiteralExclusionOnly(t) ==
    [t EXCEPT !._excluded_letters_regex =
         IF t._excluded_letters = <<>> THEN None
         ELSE re_compile(<<"[">> \o t._excluded_letters \o <<"]">>)]

\* C20: for every available_letters value and every word, passes_internal_tests
\* gives the same verdict with the zero-allowance letters in the exclusion set
\* as with only the letters of excluded_letters in it.
C20_DerivedExclusionIsOptimisation ==
    \A w \in BudgetWords :
        passes_internal_tests(self, w) = passes_internal_tests(LiteralExclusionOnly(self), w)

\* is_word_valid rejected "cost" under available_letters "cat" with nothing
\* excluded: the derived class, which holds 's' and 'o', is what the word met
\* first.
C20_Witness ==
    /\ op = "is_word_valid"
    /\ arg = cost
    /\ ret = FALSE
    /\ _available_letters = cat
    /\ _excluded_letters = <<>>
    /\ _excluded_letters_regex # None
    /\ re_search(_excluded_letters_regex, cost)

====
